---- MODULE Spec2Model ----
(***************************************************************************)
(* Model of the Airflow DAGs of the repository:                            *)
(*   airflow-intro/dags/user_processing.py   (DAG user_processing)         *)
(*   airflow-test/dags/sales_data_pipeline.py (DAG sales_data_pipeline)    *)
(* The task callables are translated from the source; the scheduling of    *)
(* task instances (trigger rule all_success, retries, the sensor's poke    *)
(* loop) is the behaviour of the Airflow operators the source instantiates.*)
(***************************************************************************)
EXTENDS Integers, Sequences, FiniteSets, TLC

\* ------------------------------------------------------------------ bounds
\* DAG runs of user_processing that are triggered in one behaviour.
MaxRuns == 2
\* Longest duration, in seconds, of one HTTP GET of the sensor.
MaxLatency == 1
\* Not-ready answers the resource gives a run when several runs are modelled.
MaxDown == 0
\* DAG runs of sales_data_pipeline that are triggered in one behaviour.
MaxSalesRuns == 2
\* Rows of a result of the source system other than sample_data.
MaxRows == 2
\* Invocations of the extract cloud function in one behaviour.
MaxInvocations == 3
\* Records generate_sample_sales_data gives at most.
MaxOrders == 1

\* ------------------------------------------------------- program constants
\* @task.sensor(poke_interval=5, timeout=300)
poke_interval == 5
timeout == 300
\* default_args: 'retries': 2
retries == 2
\* default_args: 'retry_delay': timedelta(minutes=5), in seconds
retry_delay == 300
\* FileSensor(timeout=300, poke_interval=30)
file_sensor_timeout == 300
file_sensor_poke_interval == 30

VARIABLES
    scenario,       \* "timing": one run, polls take time; "runs": several runs
    dag_run,        \* dag_run[r]: state of DAG run r
    ti,             \* ti[r][t]: state of the task instance of task t in run r
    started,        \* started[r]: the tasks of run r in the order they started
    error,          \* error[r][t]: the exception that failed the task instance
    xcom,           \* xcom[r][t]: return value pushed by task t of run r
    response,       \* response[r]: outcome of the sensor's last requests.get
    poke_return,    \* poke_return[r]: PokeReturnValue of the sensor's last poke
    poke_count,     \* poke_count[r]: pokes of the sensor of run r so far
    run_duration,   \* run_duration[r]: seconds since the sensor of run r started
    extract_arg,    \* extract_arg[r]: the argument extract_user was called with
    processed,      \* processed[r]: user_info of process_user of run r at its end
    create_seen,    \* create_seen[r]: rows of users when create_table of r ran
    clock,          \* datetime.now(), in seconds
    user_info_csv,  \* content of /tmp/user_info.csv
    written_by,     \* the run whose process_user wrote /tmp/user_info.csv last
    loaded,         \* loaded[r]: the rows the COPY of store_user of run r added
    users,          \* the table users of the postgres connection
    source,         \* the frame the extraction of sales_data_pipeline yields
    sales_run,      \* sales_run[r]: state of run r of sales_data_pipeline
    sales_ti,       \* sales_ti[r][t]: state of the task instance of t in run r
    try_number,     \* try_number[r][t]: attempts of task t of run r so far
    sales_error,    \* sales_error[r][t]: the exception of the last failed attempt
    raw_sales_data_csv,          \* content of /tmp/raw_sales_data.csv
    transformed_sales_data_csv,  \* content of /tmp/transformed_sales_data.csv
    sales_report_json,           \* content of /tmp/sales_report.json
    backup_csv,                  \* content of /tmp/backup_<date>.csv
    external_trigger,   \* whether /tmp/external_trigger.txt exists
    file_poke_count,    \* file_poke_count[r]: sleeps of the running wait_for_external_file
    transform_wrote,    \* transform_wrote[r]: transform_sales_data of r wrote its file
    emails,             \* emails[r]: completion e-mails sent by run r
    raw_sales_data,     \* the rows of the BigQuery table sales_pipeline.raw_sales_data
    gcs,                \* gcs[d]: the blob raw-sales-data/<d>.json of the bucket
    http,               \* the responses of the invocations of the extract function
    first_load          \* first_load[d]: the rows the first successful run for d loaded

user_vars == <<dag_run, ti, started, error, xcom, response, poke_return, poke_count, run_duration, extract_arg, processed, create_seen, clock, user_info_csv, written_by, loaded, users>>

sales_vars == <<source, sales_run, sales_ti, try_number, sales_error, raw_sales_data_csv, transformed_sales_data_csv, sales_report_json, backup_csv, external_trigger, file_poke_count, transform_wrote, emails>>

warehouse_vars == <<raw_sales_data, gcs, http, first_load>>

vars == <<scenario, user_vars, sales_vars, warehouse_vars>>

Runs == 1..MaxRuns

\* ------------------------------------------------------------------ values
None == [type |-> "NoneType"]

Raised(e) == [exception |-> e]

IsRaised(v) == "exception" \in DOMAIN v

\* The documents the URL may serve.  "not_json" is a body that is no JSON.
FirstName(i) == IF i = 1 THEN "A" ELSE "C"

LastName(i) == IF i = 1 THEN "B" ELSE "D"

Email(i) == IF i = 1 THEN "a@b.com" ELSE "c@d.com"

PersonalInfo(i) == [firstName |-> FirstName(i), lastName |-> LastName(i), email |-> Email(i)]

FakeUser(i) == [id |-> i, personalInfo |-> PersonalInfo(i)]

UserIds == {1, 2}

WellFormedTexts == {"user1", "user2"}

MalformedTexts == {"no_personalInfo", "no_email", "no_id"}

Texts == WellFormedTexts \cup MalformedTexts \cup {"not_json"}

\* response.json(): the decoded body, or the JSONDecodeError it raises.
json(resp) ==
    CASE resp.text = "user1" -> FakeUser(1)
      [] resp.text = "user2" -> FakeUser(2)
      [] resp.text = "no_personalInfo" -> [id |-> 1]
      [] resp.text = "no_email" -> [id |-> 1, personalInfo |-> [firstName |-> "A", lastName |-> "B"]]
      [] resp.text = "no_id" -> [personalInfo |-> PersonalInfo(2)]
      [] OTHER -> Raised("JSONDecodeError")

StatusCodes == {200, 204, 404, 503}

\* What requests.get gives: a response, or no response at all.
ConnectionError == Raised("ConnectionError")

Responses == [status : {200}, text : Texts] \cup [status : StatusCodes \ {200}, text : {"user1"}]

\* ------------------------------------------------------------- the DAG
Tasks == {"create_table", "is_api_availible", "extract_user", "process_user", "store_user"}

\* Mutant: store_user() is called on a line of its own, with no >> before it.
UpstreamStoreUnchained(t) ==
    CASE t = "create_table" -> {}
      [] t = "is_api_availible" -> {"create_table"}
      [] t = "extract_user" -> {"is_api_availible"}
      [] t = "process_user" -> {"extract_user"}
      [] t = "store_user" -> {}

\* process_user(extract_user(create_table >> is_api_availible())) >> store_user()
Upstream(t) ==
    CASE t = "create_table" -> {}
      [] t = "is_api_availible" -> {"create_table"}
      [] t = "extract_user" -> {"is_api_availible"}
      [] t = "process_user" -> {"extract_user"}
      [] t = "store_user" -> {"process_user"}

Finished == {"success", "failed", "upstream_failed"}

\* Trigger rule all_success, the default of every task of the DAG.
AllSuccess(r, t) == \A u \in Upstream(t) : ti[r][u] = "success"

UpstreamBroken(r, t) == \E u \in Upstream(t) : ti[r][u] \in {"failed", "upstream_failed"}

Running(r, t) == dag_run[r] = "running" /\ ti[r][t] = "running"

Succeed(r, t, value) ==
    /\ ti' = [ti EXCEPT ![r][t] = "success"]
    /\ xcom' = [xcom EXCEPT ![r][t] = value]
    /\ error' = error

\* retries is 0 for the tasks of user_processing: a raised exception fails
\* the task instance.
Fail(r, t, e) ==
    /\ ti' = [ti EXCEPT ![r][t] = "failed"]
    /\ error' = [error EXCEPT ![r][t] = e]
    /\ xcom' = xcom

\* ------------------------------------------------------------- the table
\* create table if not exists users (id INT PRIMARY KEY, firstName ...,
\* lastName ..., email ..., created_at ...); unquoted names fold to lower case.
UsersColumns == <<"id", "firstname", "lastname", "email", "created_at">>

NoTable == [exists |-> FALSE, columns |-> <<>>, primary_key |-> "", rows |-> <<>>]

\* Mutant: drop table if exists users; create table users (...).
CreateTableAfterDrop(db) == [exists |-> TRUE, columns |-> UsersColumns, primary_key |-> "id", rows |-> <<>>]

\* Mutant: id INT, with no PRIMARY KEY.
CreateTableNoPrimaryKey(db) ==
    IF db.exists THEN db
    ELSE [exists |-> TRUE, columns |-> UsersColumns, primary_key |-> "", rows |-> <<>>]

CreateTableIfNotExists(db) ==
    IF db.exists THEN db
    ELSE [exists |-> TRUE, columns |-> UsersColumns, primary_key |-> "id", rows |-> <<>>]

\* copy users from stdin with csv header: the header line is skipped, every
\* other line gives the columns of the table in their order; the statement
\* adds all its rows or, on an error, none.
Ids(rows) == {rows[i][1] : i \in DOMAIN rows}

copy_expert(db, file) ==
    IF file = None THEN Raised("FileNotFoundError")
    ELSE IF ~db.exists THEN Raised("UndefinedTable")
    ELSE IF \E i \in DOMAIN file.rows : Len(file.rows[i]) # Len(db.columns) THEN Raised("BadCopyFileFormat")
    ELSE IF db.primary_key = "id" /\ (Ids(file.rows) \cap Ids(db.rows) # {} \/ Cardinality(Ids(file.rows)) # Len(file.rows)) THEN Raised("UniqueViolation")
    ELSE [db EXCEPT !.rows = db.rows \o file.rows]

\* ------------------------------------------------------- the callables
\* A dict keeps the insertion order of its keys.
Dict(keys, val) == [keys |-> keys, val |-> val]

DictSet(d, k, v) == Dict(IF k \in DOMAIN d.val THEN d.keys ELSE Append(d.keys, k), [x \in DOMAIN d.val \cup {k} |-> IF x = k THEN v ELSE d.val[x]])

PokeReturnValue(is_done, xcom_value) == [is_done |-> is_done, xcom_value |-> xcom_value]

\* Mutant: if response.ok, which is true of every status below 400.
is_api_availible_ok(resp) ==
    IF resp.status < 400
    THEN LET fake_user == json(resp)
         IN IF IsRaised(fake_user) THEN fake_user ELSE PokeReturnValue(TRUE, fake_user)
    ELSE PokeReturnValue(FALSE, None)

\* def is_api_availible(), given the outcome of its requests.get: the
\* PokeReturnValue it returns, or the exception response.json() raises.
is_api_availible(resp) ==
    IF resp.status = 200
    THEN LET fake_user == json(resp)
         IN IF IsRaised(fake_user) THEN fake_user ELSE PokeReturnValue(TRUE, fake_user)
    ELSE PokeReturnValue(FALSE, None)

HasKey(d, k) == k \in DOMAIN d

\* d.get(k)
Get(d, k) == IF HasKey(d, k) THEN d[k] ELSE None

\* Mutant: fake_user.get("personalInfo", {}).get(...), which fills in None.
extract_user_get(fake_user) ==
    LET info == IF HasKey(fake_user, "personalInfo") THEN fake_user.personalInfo ELSE [x \in {} |-> None]
    IN  Dict(<<"id", "firstname", "lastname", "email">>, [id |-> Get(fake_user, "id"), firstname |-> Get(info, "firstName"), lastname |-> Get(info, "lastName"), email |-> Get(info, "email")])

\* def extract_user(fake_user): the dict it returns, or the KeyError of the
\* first subscript that fails.
extract_user(fake_user) ==
    IF ~HasKey(fake_user, "id") \/ ~HasKey(fake_user, "personalInfo") THEN Raised("KeyError")
    ELSE IF \E k \in {"firstName", "lastName", "email"} : ~HasKey(fake_user.personalInfo, k) THEN Raised("KeyError")
    ELSE Dict(<<"id", "firstname", "lastname", "email">>, [id |-> fake_user.id, firstname |-> fake_user.personalInfo.firstName, lastname |-> fake_user.personalInfo.lastName, email |-> fake_user.personalInfo.email])

\* def process_user(user_info), the dict after line 67; now is datetime.now()
\* in whole seconds, which is what the format "%Y-%m-%d %H:%M:%S" keeps.
process_user(user_info, now) == DictSet(user_info, "created_at", now)

\* csv.DictWriter(f, fieldnames=user_info.keys()): writeheader, writerow.
DictWriter(user_info) == [header |-> user_info.keys, rows |-> <<[i \in DOMAIN user_info.keys |-> user_info.val[user_info.keys[i]]]>>]

\* ------------------------------------------- sales_data_pipeline: the data
\* A cell of a numeric column is <<n>>, or <<>> for the NaN of an empty field.
\* Prices are in cents.
NaN == <<>>

Num(n) == <<n>>

Row(quantity, price) == [quantity |-> quantity, price |-> price]

\* sample_data of extract_sales_data: the columns quantity and price.
sample_data == <<Row(Num(2), Num(2999)), Row(Num(1), Num(4999)), Row(Num(3), Num(2999)), Row(Num(1), Num(1999)), Row(Num(2), Num(4999))>>

\* sample_data stands for the result of a query of the source system: the
\* rows such a result may have instead.
Cells == {Row(Num(1), Num(2)), Row(Num(-1), Num(2)), Row(NaN, Num(2))}

SalesData == {sample_data} \cup UNION {[1..n -> Cells] : n \in 0..MaxRows}

\* df.to_csv / pd.read_csv of a frame with these rows.
Csv(rows) == [rows |-> rows]

\* quantity * price: NaN if one of them is.
Mul(a, b) == IF a = NaN \/ b = NaN THEN NaN ELSE Num(a[1] * b[1])

\* Series.sum(): NaN is skipped, the sum of no number is 0.
RECURSIVE Sum(_)
Sum(col) == IF col = <<>> THEN 0 ELSE (IF Head(col) = NaN THEN 0 ELSE Head(col)[1]) + Sum(Tail(col))

TotalAmount(rows) == [i \in DOMAIN rows |-> rows[i].total_amount]

\* df['total_amount'] = df['quantity'] * df['price']
WithTotalAmount(rows) == [i \in DOMAIN rows |-> [quantity |-> rows[i].quantity, price |-> rows[i].price, total_amount |-> Mul(rows[i].quantity, rows[i].price)]]

IsNull(rows) == \E i \in DOMAIN rows : NaN \in {rows[i].quantity, rows[i].price, rows[i].total_amount}

FillNa(v) == IF v = NaN THEN Num(0) ELSE v

\* df.fillna(0)
fillna(rows) == [i \in DOMAIN rows |-> [quantity |-> FillNa(rows[i].quantity), price |-> FillNa(rows[i].price), total_amount |-> FillNa(rows[i].total_amount)]]

\* The sum of quantity * price over the rows of a raw file.
Aggregate(raw) == Sum(TotalAmount(WithTotalAmount(raw.rows)))

\* Mutant: if df['total_amount'].sum() <= 0: raise ValueError.
transform_sales_data_nonpositive(raw) ==
    IF raw = None THEN Raised("FileNotFoundError")
    ELSE LET df == WithTotalAmount(raw.rows)
         IN  IF Sum(TotalAmount(df)) <= 0 THEN Raised("ValueError")
             ELSE [to_csv |-> Csv(IF IsNull(df) THEN fillna(df) ELSE df)]

\* def transform_sales_data, given the content of /tmp/raw_sales_data.csv:
\* the exception it raises, or what it writes to /tmp/transformed_sales_data.csv.
transform_sales_data(raw) ==
    IF raw = None THEN Raised("FileNotFoundError")
    ELSE LET df == WithTotalAmount(raw.rows)
         IN  IF Sum(TotalAmount(df)) = 0 THEN Raised("ValueError")
             ELSE [to_csv |-> Csv(IF IsNull(df) THEN fillna(df) ELSE df)]

\* def validate_data_quality, given /tmp/transformed_sales_data.csv.
validate_data_quality(file) ==
    IF file = None THEN Raised("FileNotFoundError")
    ELSE IF Len(file.rows) = 0 THEN Raised("ValueError")
    ELSE IF Sum(TotalAmount(file.rows)) < 0 THEN Raised("ValueError")
    ELSE [return |-> "Data quality OK"]

\* def generate_sales_report, given /tmp/transformed_sales_data.csv: the
\* report it dumps to /tmp/sales_report.json; idxmax of no row raises.
generate_sales_report(file) ==
    IF file = None THEN Raised("FileNotFoundError")
    ELSE IF Len(file.rows) = 0 THEN Raised("ValueError")
    ELSE [report |-> [total_orders |-> Len(file.rows), total_revenue |-> Sum(TotalAmount(file.rows))]]

\* cp /tmp/transformed_sales_data.csv /tmp/backup_$(date +%Y%m%d).csv
cp(file) == IF file = None THEN Raised("AirflowException") ELSE [copy |-> file]

\* ------------------------------------------ sales_data_pipeline: the DAG
SalesRuns == 1..MaxSalesRuns

SalesTasks == {"extract_sales_data", "transform_sales_data", "validate_data_quality", "generate_sales_report", "backup_processed_data", "wait_for_external_file", "send_completion_email"}

\* Mutant: extract_task >> [transform_task, validate_task], validate_task >> report_task.
SalesUpstreamValidateUnchained(t) ==
    CASE t = "extract_sales_data" -> {}
      [] t = "transform_sales_data" -> {"extract_sales_data"}
      [] t = "validate_data_quality" -> {"extract_sales_data"}
      [] t = "generate_sales_report" -> {"validate_data_quality"}
      [] t = "backup_processed_data" -> {"extract_sales_data"}
      [] t = "wait_for_external_file" -> {}
      [] t = "send_completion_email" -> {"generate_sales_report"}

\* extract_task >> transform_task >> validate_task >> report_task
\* extract_task >> backup_task
\* report_task >> notify_task
SalesUpstream(t) ==
    CASE t = "extract_sales_data" -> {}
      [] t = "transform_sales_data" -> {"extract_sales_data"}
      [] t = "validate_data_quality" -> {"transform_sales_data"}
      [] t = "generate_sales_report" -> {"validate_data_quality"}
      [] t = "backup_processed_data" -> {"extract_sales_data"}
      [] t = "wait_for_external_file" -> {}
      [] t = "send_completion_email" -> {"generate_sales_report"}

\* The tasks no task is downstream of.
SalesLeaves == {t \in SalesTasks : \A u \in SalesTasks : t \notin SalesUpstream(u)}

SalesTaskMap(v) == [r \in SalesRuns |-> [t \in SalesTasks |-> v]]

SalesRunning(r, t) == sales_run[r] = "running" /\ sales_ti[r][t] = "running"

SalesSucceed(r, t) ==
    /\ sales_ti' = [sales_ti EXCEPT ![r][t] = "success"]
    /\ sales_error' = sales_error

\* Mutant: 'retries': 3.
SalesFailOnceMore(r, t, e) ==
    /\ sales_ti' = [sales_ti EXCEPT ![r][t] = IF try_number[r][t] <= retries + 1 THEN "up_for_retry" ELSE "failed"]
    /\ sales_error' = [sales_error EXCEPT ![r][t] = e]

\* 'retries': 2: a failed attempt is retried while the attempts made do not
\* exceed retries.
SalesFail(r, t, e) ==
    /\ sales_ti' = [sales_ti EXCEPT ![r][t] = IF try_number[r][t] <= retries THEN "up_for_retry" ELSE "failed"]
    /\ sales_error' = [sales_error EXCEPT ![r][t] = e]

InitSales ==
    /\ sales_run = [r \in SalesRuns |-> "none"]
    /\ sales_ti = SalesTaskMap("none")
    /\ try_number = SalesTaskMap(0)
    /\ sales_error = SalesTaskMap("")
    /\ raw_sales_data_csv = None
    /\ transformed_sales_data_csv = None
    /\ sales_report_json = None
    /\ backup_csv = None
    /\ file_poke_count = [r \in SalesRuns |-> 0]
    /\ transform_wrote = [r \in SalesRuns |-> FALSE]
    /\ emails = [r \in SalesRuns |-> 0]

\* ------------------------------- gcp-pipeline: the extract cloud function
\* The execution dates a request may name.
Dates == {"2024-01-15", "2024-01-16"}

\* generate_sample_sales_data(execution_date): a random number of records,
\* with order_id 1000 + i, a random quantity, and the date; the other random
\* fields are left out.
Record(i, quantity, execution_date) == [order_id |-> 1000 + i, quantity |-> quantity, order_date |-> execution_date]

generate_sample_sales_data(execution_date) == UNION {{[i \in 1..n |-> Record(i - 1, q[i], execution_date)] : q \in [1..n -> 1..2]} : n \in 1..MaxOrders}

\* WriteDisposition.WRITE_APPEND: the loaded rows are added after the rows
\* of the table.
load_table_from_file(table, data) == table \o data

\* The rows of a table with the given order_date, in the order of the table.
RowsOf(table, d) == SelectSeq(table, LAMBDA row : row.order_date = d)

InitWarehouse ==
    /\ raw_sales_data = <<>>
    /\ gcs = [d \in Dates |-> <<>>]
    /\ http = <<>>
    /\ first_load = [d \in Dates |-> <<>>]

\* ------------------------------------------------------------- the state
TaskMap(v) == [r \in Runs |-> [t \in Tasks |-> v]]

InitUser ==
    /\ dag_run = [r \in Runs |-> "none"]
    /\ ti = TaskMap("none")
    /\ started = [r \in Runs |-> <<>>]
    /\ error = TaskMap("")
    /\ xcom = TaskMap(None)
    /\ response = [r \in Runs |-> None]
    /\ poke_return = [r \in Runs |-> None]
    /\ poke_count = [r \in Runs |-> 0]
    /\ run_duration = [r \in Runs |-> 0]
    /\ extract_arg = [r \in Runs |-> None]
    /\ processed = [r \in Runs |-> None]
    /\ create_seen = [r \in Runs |-> -1]
    /\ clock = 0
    /\ user_info_csv = None
    /\ written_by = 0
    /\ loaded = [r \in Runs |-> <<>>]
    /\ users = NoTable

\* One run whose polls take time.
InitGate == scenario = "timing" /\ InitUser /\ InitSales /\ InitWarehouse /\ source = <<>> /\ external_trigger = FALSE

\* Several runs, which may overlap; their polls are instantaneous.
Init == scenario = "runs" /\ InitUser /\ InitSales /\ InitWarehouse /\ source = <<>> /\ external_trigger = FALSE

RunLimit == IF scenario = "timing" THEN 1 ELSE MaxRuns

Latencies == IF scenario = "timing" THEN 0..MaxLatency ELSE {0}

\* What the n-th requests.get of a run may give: anything when one run is
\* modelled; with several runs, a document out of three, MaxDown times a 404
\* instead, or no response.
Outcomes(n) ==
    IF scenario = "timing" THEN Responses \cup {ConnectionError}
    ELSE [status : {200}, text : {"user1", "user2", "no_personalInfo"}] \cup {ConnectionError} \cup (IF n <= MaxDown THEN [status : {404}, text : {"user1"}] ELSE {})

\* ------------------------------------------------------------ scheduling
\* A run is created (the DAG has no schedule: it is triggered); the DAG sets
\* no max_active_runs, so the runs of one behaviour may all be active.
TriggerRun(r) ==
    /\ r <= RunLimit
    /\ dag_run[r] = "none"
    /\ r > 1 => dag_run[r - 1] # "none"
    /\ dag_run' = [dag_run EXCEPT ![r] = "running"]
    /\ UNCHANGED <<sales_vars, warehouse_vars>>
    /\ UNCHANGED <<scenario, ti, started, error, xcom, response, poke_return, poke_count, run_duration, extract_arg, processed, create_seen, clock, user_info_csv, written_by, loaded, users>>

\* A task instance starts when all its upstream tasks have succeeded.
StartTask(r, t) ==
    /\ dag_run[r] = "running"
    /\ ti[r][t] = "none"
    /\ AllSuccess(r, t)
    /\ ti' = [ti EXCEPT ![r][t] = "running"]
    /\ started' = [started EXCEPT ![r] = Append(@, t)]
    /\ UNCHANGED <<sales_vars, warehouse_vars>>
    /\ UNCHANGED <<scenario, dag_run, error, xcom, response, poke_return, poke_count, run_duration, extract_arg, processed, create_seen, clock, user_info_csv, written_by, loaded, users>>

\* A task instance with a failed upstream task never runs.
MarkUpstreamFailed(r, t) ==
    /\ dag_run[r] = "running"
    /\ ti[r][t] = "none"
    /\ UpstreamBroken(r, t)
    /\ ti' = [ti EXCEPT ![r][t] = "upstream_failed"]
    /\ UNCHANGED <<sales_vars, warehouse_vars>>
    /\ UNCHANGED <<scenario, dag_run, started, error, xcom, response, poke_return, poke_count, run_duration, extract_arg, processed, create_seen, clock, user_info_csv, written_by, loaded, users>>

\* The run ends when its tasks have: success if its leaf task succeeded.
FinishRun(r) ==
    /\ dag_run[r] = "running"
    /\ \A t \in Tasks : ti[r][t] \in Finished
    /\ dag_run' = [dag_run EXCEPT ![r] = IF ti[r]["store_user"] = "success" THEN "success" ELSE "failed"]
    /\ UNCHANGED <<sales_vars, warehouse_vars>>
    /\ UNCHANGED <<scenario, ti, started, error, xcom, response, poke_return, poke_count, run_duration, extract_arg, processed, create_seen, clock, user_info_csv, written_by, loaded, users>>

\* ----------------------------------------------------------------- tasks
\* create_table = SQLExecuteQueryOperator(sql="create table if not exists ...")
create_table(r) ==
    /\ Running(r, "create_table")
    /\ users' = CreateTableIfNotExists(users)
    /\ create_seen' = [create_seen EXCEPT ![r] = Len(users.rows)]
    /\ Succeed(r, "create_table", None)
    /\ UNCHANGED <<sales_vars, warehouse_vars>>
    /\ UNCHANGED <<scenario, dag_run, started, response, poke_return, poke_count, run_duration, extract_arg, processed, clock, user_info_csv, written_by, loaded>>

\* Mutant: the sensor gives up when its next poke would start after timeout.
SensorTimedOutBeforeSleep(dur) == dur + poke_interval > timeout

\* The sensor gives up when it has run longer than timeout.
SensorTimedOut(dur) == dur > timeout

\* One round of the sensor: a poke that takes d seconds; an exception of the
\* poke fails the task; a done poke ends it with the xcom_value; otherwise
\* the sensor times out if it has run longer than timeout, or sleeps
\* poke_interval and pokes again.
PokeSensor(r) ==
    /\ Running(r, "is_api_availible")
    /\ \E d \in Latencies, o \in Outcomes(poke_count[r] + 1) :
        LET ret == IF IsRaised(o) THEN o ELSE is_api_availible(o)
            dur == run_duration[r] + d
        IN  /\ response' = [response EXCEPT ![r] = o]
            /\ poke_count' = [poke_count EXCEPT ![r] = @ + 1]
            /\ poke_return' = [poke_return EXCEPT ![r] = IF IsRaised(ret) THEN None ELSE ret]
            /\ IF IsRaised(ret)
               THEN Fail(r, "is_api_availible", ret.exception) /\ run_duration' = [run_duration EXCEPT ![r] = dur]
               ELSE IF ret.is_done
               THEN Succeed(r, "is_api_availible", ret.xcom_value) /\ run_duration' = [run_duration EXCEPT ![r] = dur]
               ELSE IF SensorTimedOut(dur)
               THEN Fail(r, "is_api_availible", "AirflowSensorTimeout") /\ run_duration' = [run_duration EXCEPT ![r] = dur]
               ELSE run_duration' = [run_duration EXCEPT ![r] = dur + poke_interval] /\ UNCHANGED <<ti, error, xcom>>
    /\ UNCHANGED <<sales_vars, warehouse_vars>>
    /\ UNCHANGED <<scenario, dag_run, started, extract_arg, processed, create_seen, clock, user_info_csv, written_by, loaded, users>>

\* extract_user(fake_user) with the sensor's xcom_value.
RunExtractUser(r) ==
    /\ Running(r, "extract_user")
    /\ LET fake_user == xcom[r]["is_api_availible"]
           ret == extract_user(fake_user)
       IN  /\ extract_arg' = [extract_arg EXCEPT ![r] = fake_user]
           /\ IF IsRaised(ret) THEN Fail(r, "extract_user", ret.exception) ELSE Succeed(r, "extract_user", ret)
    /\ UNCHANGED <<sales_vars, warehouse_vars>>
    /\ UNCHANGED <<scenario, dag_run, started, response, poke_return, poke_count, run_duration, processed, create_seen, clock, user_info_csv, written_by, loaded, users>>

\* process_user(user_info) with the dict extract_user returned: it writes
\* /tmp/user_info.csv and returns nothing.
RunProcessUser(r) ==
    /\ Running(r, "process_user")
    /\ LET user_info == process_user(xcom[r]["extract_user"], clock)
       IN  user_info_csv' = DictWriter(user_info) /\ processed' = [processed EXCEPT ![r] = user_info]
    /\ written_by' = r
    /\ clock' = clock + 1
    /\ Succeed(r, "process_user", None)
    /\ UNCHANGED <<sales_vars, warehouse_vars>>
    /\ UNCHANGED <<scenario, dag_run, started, response, poke_return, poke_count, run_duration, extract_arg, create_seen, loaded, users>>

\* store_user(): hook.copy_expert of /tmp/user_info.csv into users.
RunStoreUser(r) ==
    /\ Running(r, "store_user")
    /\ LET ret == copy_expert(users, user_info_csv)
       IN  IF IsRaised(ret)
           THEN Fail(r, "store_user", ret.exception) /\ UNCHANGED <<users, loaded>>
           ELSE Succeed(r, "store_user", None) /\ users' = ret /\ loaded' = [loaded EXCEPT ![r] = user_info_csv.rows]
    /\ UNCHANGED <<sales_vars, warehouse_vars>>
    /\ UNCHANGED <<scenario, dag_run, started, response, poke_return, poke_count, run_duration, extract_arg, processed, create_seen, clock, user_info_csv, written_by>>

Next ==
    \/ \E r \in Runs : TriggerRun(r)
    \/ \E r \in Runs, t \in Tasks : StartTask(r, t)
    \/ \E r \in Runs, t \in Tasks : MarkUpstreamFailed(r, t)
    \/ \E r \in Runs : FinishRun(r)
    \/ \E r \in Runs : create_table(r)
    \/ \E r \in Runs : PokeSensor(r)
    \/ \E r \in Runs : RunExtractUser(r)
    \/ \E r \in Runs : RunProcessUser(r)
    \/ \E r \in Runs : RunStoreUser(r)

\* Several runs of user_processing.
Spec == Init /\ [][Next]_vars

\* One run of user_processing with the sensor's timing.
SpecGate == InitGate /\ [][Next]_vars

\* ------------------------------------ sales_data_pipeline: scheduling
SalesFinished == {"success", "failed", "upstream_failed"}

\* max_active_runs=1: a run is created when no other run is active.
TriggerSalesRun(r) ==
    /\ sales_run[r] = "none"
    /\ r > 1 => sales_run[r - 1] # "none"
    /\ \A q \in SalesRuns : sales_run[q] # "running"
    /\ sales_run' = [sales_run EXCEPT ![r] = "running"]
    /\ UNCHANGED <<scenario, user_vars, warehouse_vars>>
    /\ UNCHANGED <<source, sales_ti, try_number, sales_error, raw_sales_data_csv, transformed_sales_data_csv, sales_report_json, backup_csv, external_trigger, file_poke_count, transform_wrote, emails>>

\* 'retry_delay': a task that is up for retry is scheduled again when
\* retry_delay has passed since its attempt failed.
RetryDelayElapses(r, t) ==
    /\ sales_run[r] = "running"
    /\ sales_ti[r][t] = "up_for_retry"
    /\ sales_ti' = [sales_ti EXCEPT ![r][t] = "scheduled"]
    /\ UNCHANGED <<scenario, user_vars, warehouse_vars>>
    /\ UNCHANGED <<source, sales_run, try_number, sales_error, raw_sales_data_csv, transformed_sales_data_csv, sales_report_json, backup_csv, external_trigger, file_poke_count, transform_wrote, emails>>

\* An attempt of a task starts when all its upstream tasks have succeeded;
\* a further attempt, when the task is scheduled again.
StartSalesTask(r, t) ==
    /\ sales_run[r] = "running"
    /\ sales_ti[r][t] \in {"none", "scheduled"}
    /\ \A u \in SalesUpstream(t) : sales_ti[r][u] = "success"
    /\ sales_ti' = [sales_ti EXCEPT ![r][t] = "running"]
    /\ try_number' = [try_number EXCEPT ![r][t] = @ + 1]
    /\ UNCHANGED <<scenario, user_vars, warehouse_vars>>
    /\ UNCHANGED <<source, sales_run, sales_error, raw_sales_data_csv, transformed_sales_data_csv, sales_report_json, backup_csv, external_trigger, file_poke_count, transform_wrote, emails>>

\* A task with a failed upstream task never runs.
SalesUpstreamFailed(r, t) ==
    /\ sales_run[r] = "running"
    /\ sales_ti[r][t] = "none"
    /\ \E u \in SalesUpstream(t) : sales_ti[r][u] \in {"failed", "upstream_failed"}
    /\ sales_ti' = [sales_ti EXCEPT ![r][t] = "upstream_failed"]
    /\ UNCHANGED <<scenario, user_vars, warehouse_vars>>
    /\ UNCHANGED <<source, sales_run, try_number, sales_error, raw_sales_data_csv, transformed_sales_data_csv, sales_report_json, backup_csv, external_trigger, file_poke_count, transform_wrote, emails>>

\* The run ends when its tasks have: success if all its leaf tasks succeeded.
FinishSalesRun(r) ==
    /\ sales_run[r] = "running"
    /\ \A t \in SalesTasks : sales_ti[r][t] \in SalesFinished
    /\ sales_run' = [sales_run EXCEPT ![r] = IF \A t \in SalesLeaves : sales_ti[r][t] = "success" THEN "success" ELSE "failed"]
    /\ UNCHANGED <<scenario, user_vars, warehouse_vars>>
    /\ UNCHANGED <<source, sales_ti, try_number, sales_error, raw_sales_data_csv, transformed_sales_data_csv, sales_report_json, backup_csv, external_trigger, file_poke_count, transform_wrote, emails>>

\* The external system writes /tmp/external_trigger.txt.
ExternalFileArrives ==
    /\ ~external_trigger
    /\ external_trigger' = TRUE
    /\ UNCHANGED <<scenario, user_vars, warehouse_vars>>
    /\ UNCHANGED <<source, sales_run, sales_ti, try_number, sales_error, raw_sales_data_csv, transformed_sales_data_csv, sales_report_json, backup_csv, file_poke_count, transform_wrote, emails>>

\* ---------------------------------------- sales_data_pipeline: tasks
\* def extract_sales_data: df.to_csv('/tmp/raw_sales_data.csv') of the frame
\* of the source system.
RunExtractSalesData(r) ==
    /\ SalesRunning(r, "extract_sales_data")
    /\ raw_sales_data_csv' = Csv(source)
    /\ SalesSucceed(r, "extract_sales_data")
    /\ UNCHANGED <<scenario, user_vars, warehouse_vars>>
    /\ UNCHANGED <<source, sales_run, try_number, transformed_sales_data_csv, sales_report_json, backup_csv, external_trigger, file_poke_count, transform_wrote, emails>>

\* One attempt of transform_sales_data.
RunTransformSalesData(r) ==
    /\ SalesRunning(r, "transform_sales_data")
    /\ LET ret == transform_sales_data(raw_sales_data_csv)
       IN  IF IsRaised(ret)
           THEN SalesFail(r, "transform_sales_data", ret.exception) /\ UNCHANGED <<transformed_sales_data_csv, transform_wrote>>
           ELSE /\ SalesSucceed(r, "transform_sales_data")
                /\ transformed_sales_data_csv' = ret.to_csv
                /\ transform_wrote' = [transform_wrote EXCEPT ![r] = TRUE]
    /\ UNCHANGED <<scenario, user_vars, warehouse_vars>>
    /\ UNCHANGED <<source, sales_run, try_number, raw_sales_data_csv, sales_report_json, backup_csv, external_trigger, file_poke_count, emails>>

\* One attempt of validate_data_quality.
RunValidateDataQuality(r) ==
    /\ SalesRunning(r, "validate_data_quality")
    /\ LET ret == validate_data_quality(transformed_sales_data_csv)
       IN  IF IsRaised(ret) THEN SalesFail(r, "validate_data_quality", ret.exception) ELSE SalesSucceed(r, "validate_data_quality")
    /\ UNCHANGED <<scenario, user_vars, warehouse_vars>>
    /\ UNCHANGED <<source, sales_run, try_number, raw_sales_data_csv, transformed_sales_data_csv, sales_report_json, backup_csv, external_trigger, file_poke_count, transform_wrote, emails>>

\* One attempt of generate_sales_report.
RunGenerateSalesReport(r) ==
    /\ SalesRunning(r, "generate_sales_report")
    /\ LET ret == generate_sales_report(transformed_sales_data_csv)
       IN  IF IsRaised(ret)
           THEN SalesFail(r, "generate_sales_report", ret.exception) /\ UNCHANGED sales_report_json
           ELSE SalesSucceed(r, "generate_sales_report") /\ sales_report_json' = ret.report
    /\ UNCHANGED <<scenario, user_vars, warehouse_vars>>
    /\ UNCHANGED <<source, sales_run, try_number, raw_sales_data_csv, transformed_sales_data_csv, backup_csv, external_trigger, file_poke_count, transform_wrote, emails>>

\* One attempt of backup_processed_data.
RunBackupProcessedData(r) ==
    /\ SalesRunning(r, "backup_processed_data")
    /\ LET ret == cp(transformed_sales_data_csv)
       IN  IF IsRaised(ret)
           THEN SalesFail(r, "backup_processed_data", ret.exception) /\ UNCHANGED backup_csv
           ELSE SalesSucceed(r, "backup_processed_data") /\ backup_csv' = ret.copy
    /\ UNCHANGED <<scenario, user_vars, warehouse_vars>>
    /\ UNCHANGED <<source, sales_run, try_number, raw_sales_data_csv, transformed_sales_data_csv, sales_report_json, external_trigger, file_poke_count, transform_wrote, emails>>

\* One round of wait_for_external_file: the poke succeeds if the file is
\* there; otherwise the sensor times out, which is not retried, if it has
\* run longer than timeout, or sleeps poke_interval and pokes again.
PokeFileSensor(r) ==
    /\ SalesRunning(r, "wait_for_external_file")
    /\ IF external_trigger
       THEN SalesSucceed(r, "wait_for_external_file") /\ file_poke_count' = [file_poke_count EXCEPT ![r] = 0]
       ELSE IF file_sensor_poke_interval * file_poke_count[r] > file_sensor_timeout
       THEN /\ sales_ti' = [sales_ti EXCEPT ![r]["wait_for_external_file"] = "failed"]
            /\ sales_error' = [sales_error EXCEPT ![r]["wait_for_external_file"] = "AirflowSensorTimeout"]
            /\ file_poke_count' = [file_poke_count EXCEPT ![r] = 0]
       ELSE file_poke_count' = [file_poke_count EXCEPT ![r] = @ + 1] /\ UNCHANGED <<sales_ti, sales_error>>
    /\ UNCHANGED <<scenario, user_vars, warehouse_vars>>
    /\ UNCHANGED <<source, sales_run, try_number, raw_sales_data_csv, transformed_sales_data_csv, sales_report_json, backup_csv, external_trigger, transform_wrote, emails>>

\* send_completion_email = EmailOperator(...)
SendCompletionEmail(r) ==
    /\ SalesRunning(r, "send_completion_email")
    /\ emails' = [emails EXCEPT ![r] = @ + 1]
    /\ SalesSucceed(r, "send_completion_email")
    /\ UNCHANGED <<scenario, user_vars, warehouse_vars>>
    /\ UNCHANGED <<source, sales_run, try_number, raw_sales_data_csv, transformed_sales_data_csv, sales_report_json, backup_csv, external_trigger, file_poke_count, transform_wrote>>

NextSales ==
    \/ \E r \in SalesRuns : TriggerSalesRun(r)
    \/ \E r \in SalesRuns, t \in SalesTasks : RetryDelayElapses(r, t)
    \/ \E r \in SalesRuns, t \in SalesTasks : StartSalesTask(r, t)
    \/ \E r \in SalesRuns, t \in SalesTasks : SalesUpstreamFailed(r, t)
    \/ \E r \in SalesRuns : FinishSalesRun(r)
    \/ ExternalFileArrives
    \/ \E r \in SalesRuns : RunExtractSalesData(r)
    \/ \E r \in SalesRuns : RunTransformSalesData(r)
    \/ \E r \in SalesRuns : RunValidateDataQuality(r)
    \/ \E r \in SalesRuns : RunGenerateSalesReport(r)
    \/ \E r \in SalesRuns : RunBackupProcessedData(r)
    \/ \E r \in SalesRuns : PokeFileSensor(r)
    \/ \E r \in SalesRuns : SendCompletionEmail(r)

\* sales_data_pipeline; /tmp/external_trigger.txt may be there from the start.
InitSalesPipeline == scenario = "sales" /\ InitUser /\ InitSales /\ InitWarehouse /\ source \in SalesData /\ external_trigger \in BOOLEAN

SpecSales == InitSalesPipeline /\ [][NextSales]_vars

\* ------------------------------- gcp-pipeline: the extract cloud function
\* def extract_sales_data(request) for the execution date d of the request
\* (or of today): the generated records are uploaded to the bucket and then
\* appended to raw_sales_data; an exception of either step ends the
\* invocation with status 500.
extract_sales_data(d) ==
    /\ Len(http) < MaxInvocations
    /\ \E data \in generate_sample_sales_data(d), uploaded \in BOOLEAN, inserted \in BOOLEAN :
        /\ gcs' = IF uploaded THEN [gcs EXCEPT ![d] = data] ELSE gcs
        /\ raw_sales_data' = IF uploaded /\ inserted THEN load_table_from_file(raw_sales_data, data) ELSE raw_sales_data
        /\ http' = Append(http, [execution_date |-> d, status |-> IF uploaded /\ inserted THEN 200 ELSE 500])
        /\ first_load' = IF uploaded /\ inserted /\ first_load[d] = <<>> THEN [first_load EXCEPT ![d] = data] ELSE first_load
    /\ UNCHANGED <<scenario, user_vars, sales_vars>>

NextWarehouse == \E d \in Dates : extract_sales_data(d)

InitExtractFunction == scenario = "warehouse" /\ InitUser /\ InitSales /\ InitWarehouse /\ source = <<>> /\ external_trigger = FALSE

\* Invocations of the extract cloud function, one after the other.
SpecWarehouse == InitExtractFunction /\ [][NextWarehouse]_vars

\* ------------------------------------------------------------- properties
Order == <<"create_table", "is_api_availible", "extract_user", "process_user", "store_user">>

Count(seq, x) == Cardinality({i \in DOMAIN seq : seq[i] = x})

Ran(r, t) == ti[r][t] \in {"success", "failed"}

GotResponse(r) == poke_count[r] > 0 /\ ~IsRaised(response[r])

Status(r) == IF GotResponse(r) THEN response[r].status ELSE 0

\* C1: in every run the tasks start in the order create_table,
\* is_api_availible, extract_user, process_user, store_user, and a task has
\* started only if its predecessor in this order has succeeded in that run.
C1_FixedOrder ==
    \A r \in Runs :
        /\ Len(started[r]) <= Len(Order)
        /\ \A i \in DOMAIN started[r] : started[r][i] = Order[i] /\ (i > 1 => ti[r][Order[i - 1]] = "success")
        /\ \A t \in Tasks : ti[r][t] \in {"running", "success", "failed"} => Count(started[r], t) = 1

C1_Witness == \E r \in Runs : started[r] = Order /\ ti[r]["store_user"] = "success"

\* C2 as stated: a poll that got a response returns ready=true exactly when
\* the status is 200 and ready=false with no payload otherwise, and in a run
\* whose sensor was done extract_user is called once, with that payload.
C2_Original ==
    \A r \in Runs :
        /\ GotResponse(r) => poke_return[r] # None /\ poke_return[r].is_done = (response[r].status = 200)
        /\ GotResponse(r) /\ response[r].status # 200 => poke_return[r] = PokeReturnValue(FALSE, None)
        /\ Count(started[r], "extract_user") <= 1
        /\ Ran(r, "extract_user") => extract_arg[r] = poke_return[r].xcom_value

\* C2: a poll that got a response returns ready=true with the
\* decoded body exactly when the status is 200 and the body is JSON; a 200
\* whose body is no JSON makes the poll raise JSONDecodeError, which fails the
\* sensor; every other status gives ready=false with no payload.
\* extract_user is called at most once per run, only after a ready=true poll,
\* which is the sensor's last, and with the payload of that poll; a run that
\* ended after a ready=true poll has called it exactly once.
C2_PollResult ==
    \A r \in Runs :
        /\ GotResponse(r) /\ response[r].status = 200 /\ response[r].text # "not_json" => poke_return[r] = PokeReturnValue(TRUE, json(response[r]))
        /\ GotResponse(r) /\ response[r].status = 200 /\ response[r].text = "not_json" => poke_return[r] = None /\ ti[r]["is_api_availible"] = "failed" /\ error[r]["is_api_availible"] = "JSONDecodeError"
        /\ GotResponse(r) /\ response[r].status # 200 => poke_return[r] = PokeReturnValue(FALSE, None)
        /\ Count(started[r], "extract_user") <= 1
        /\ Count(started[r], "extract_user") = 1 => Status(r) = 200 /\ poke_return[r].is_done /\ xcom[r]["is_api_availible"] = json(response[r])
        /\ Ran(r, "extract_user") => extract_arg[r] = poke_return[r].xcom_value
        /\ dag_run[r] \in {"success", "failed"} /\ poke_return[r] # None /\ poke_return[r].is_done => Count(started[r], "extract_user") = 1

C2_Witness == \E r \in Runs : Ran(r, "extract_user") /\ poke_count[r] >= 2 /\ extract_arg[r] = FakeUser(2)

TimedOut(r) == ti[r]["is_api_availible"] = "failed" /\ error[r]["is_api_availible"] = "AirflowSensorTimeout"

\* Seconds the pokes of run r have taken: the sensor's run time less the
\* sleeps between its pokes.
PokeSeconds(r) == run_duration[r] - poke_interval * (poke_count[r] - 1)

Sixtieth200(r) == poke_count[r] = 60 /\ GotResponse(r) /\ response[r].status = 200 /\ response[r].text # "not_json"

\* C3 as stated: the sensor has not timed out before its 60th poll, and a
\* 60th poll answered 200 ends it with ready=true and that response's payload.
C3_Original ==
    \A r \in Runs :
        /\ TimedOut(r) => poke_count[r] >= 60
        /\ Sixtieth200(r) => ti[r]["is_api_availible"] = "success" /\ xcom[r]["is_api_availible"] = json(response[r])

\* C3: the sensor times out before its 60th poll only if its polls
\* have taken more than 10 seconds in all (timeout less the 58 sleeps of
\* poke_interval between 59 polls); a 60th poll answered 200 with a payload
\* ends the sensor with ready=true and that payload; a sensor that has
\* succeeded polls no more.
C3_SixtiethPoll ==
    /\ [](\A r \in Runs : TimedOut(r) /\ poke_count[r] < 60 => PokeSeconds(r) > timeout - 58 * poke_interval)
    /\ [](\A r \in Runs : Sixtieth200(r) => ti[r]["is_api_availible"] = "success" /\ poke_return[r] = PokeReturnValue(TRUE, json(response[r])) /\ xcom[r]["is_api_availible"] = json(response[r]))
    /\ [][\A r \in Runs : ti[r]["is_api_availible"] = "success" => poke_count'[r] = poke_count[r] /\ response'[r] = response[r]]_vars

C3_Witness == \E r \in Runs : Sixtieth200(r) /\ ti[r]["is_api_availible"] = "success" /\ PokeSeconds(r) > 0

\* C4 as stated: a sensor that fails without the resource having returned
\* 200 has failed with the sensor timeout, after more than timeout seconds,
\* and no later task of that run has run.
C4_Original ==
    \A r \in Runs :
        ti[r]["is_api_availible"] = "failed" /\ Status(r) # 200 =>
            /\ error[r]["is_api_availible"] = "AirflowSensorTimeout"
            /\ run_duration[r] > timeout
            /\ \A t \in {"extract_user", "process_user", "store_user"} : ti[r][t] \in {"none", "upstream_failed"}
            /\ dag_run[r] # "success"

\* C5 as stated: a poll whose GET raises ConnectionError returns ready=false
\* and does not fail the sensor.
C5_Original ==
    \A r \in Runs :
        poke_count[r] > 0 /\ response[r] = ConnectionError => poke_return[r] = PokeReturnValue(FALSE, None) /\ ti[r]["is_api_availible"] # "failed"

\* The payload lacks personalInfo, id, or one of firstName, lastName, email.
Lacking(payload) ==
    \/ "id" \notin DOMAIN payload
    \/ "personalInfo" \notin DOMAIN payload
    \/ {"firstName", "lastName", "email"} \ DOMAIN payload.personalInfo # {}

\* C6: when extract_user has been called with a payload that lacks
\* personalInfo or one of id, firstName, lastName, email, it has failed with
\* KeyError and returned no record, and neither process_user nor store_user
\* has started or ever starts in that run.
C6_MalformedPayload ==
    \A r \in Runs :
        Ran(r, "extract_user") /\ Lacking(extract_arg[r]) =>
            /\ ti[r]["extract_user"] = "failed"
            /\ error[r]["extract_user"] = "KeyError"
            /\ xcom[r]["extract_user"] = None
            /\ \A t \in {"process_user", "store_user"} : ti[r][t] \in {"none", "upstream_failed"} /\ Count(started[r], t) = 0
            /\ processed[r] = None /\ loaded[r] = <<>>
            /\ dag_run[r] # "success"

C6_Witness == \E r \in Runs : Ran(r, "extract_user") /\ extract_arg[r] = [id |-> 1] /\ dag_run[r] = "failed" /\ ti[r]["store_user"] = "upstream_failed"

\* C7 as stated: a run that succeeded on a well-formed payload has mapped it
\* to the record {id, firstname, lastname, email} with the payload's values,
\* its process_user has added created_at and changed nothing else, and its
\* store_user has added exactly one row: those five values, in that order.
C7_Original ==
    \A r \in Runs :
        dag_run[r] = "success" =>
            LET p == extract_arg[r]
                rec == xcom[r]["extract_user"]
            IN  /\ rec = Dict(<<"id", "firstname", "lastname", "email">>, [id |-> p.id, firstname |-> p.personalInfo.firstName, lastname |-> p.personalInfo.lastName, email |-> p.personalInfo.email])
                /\ processed[r].keys = <<"id", "firstname", "lastname", "email", "created_at">>
                /\ \A k \in DOMAIN rec.val : processed[r].val[k] = rec.val[k]
                /\ loaded[r] = <<<<p.id, p.personalInfo.firstName, p.personalInfo.lastName, p.personalInfo.email, processed[r].val["created_at"]>>>>

\* An attempt of transform_sales_data of run r has ended.
Transformed(r) == sales_ti[r]["transform_sales_data"] = "success" \/ sales_error[r]["transform_sales_data"] # ""

Consumers == {"validate_data_quality", "generate_sales_report", "send_completion_email"}

TransformRejected(r) ==
    /\ sales_ti[r]["transform_sales_data"] \in {"up_for_retry", "scheduled", "running", "failed"}
    /\ sales_error[r]["transform_sales_data"] = "ValueError"
    /\ ~transform_wrote[r]
    /\ \A t \in Consumers : try_number[r][t] = 0

Completed(d) == Cardinality({i \in DOMAIN http : http[i].execution_date = d /\ http[i].status = 200})

\* C11 as stated: once a run of the extract function for a date has
\* completed, raw_sales_data holds for that date the rows that run loaded,
\* however often the function is run again for the date.
C11_Original == \A d \in Dates : first_load[d] # <<>> => RowsOf(raw_sales_data, d) = first_load[d]

\* A date has been run, completed, and run again to completion.
C11_Rerun == \E d \in Dates : Completed(d) >= 2

\* C12 as stated, for sales_data_pipeline: no attempt of a task starts in a
\* run in which a task has failed, and a run ends as success, with every
\* task succeeded, or as failed.
C12_Original ==
    /\ [][\A r \in SalesRuns, t \in SalesTasks :
            sales_ti[r][t] # "running" /\ sales_ti'[r][t] = "running" => \A u \in SalesTasks : sales_ti[r][u] # "failed"]_vars
    /\ [](\A r \in SalesRuns : sales_run[r] = "success" => \A t \in SalesTasks : sales_ti[r][t] = "success")
    /\ [](\A r \in SalesRuns : sales_run[r] \in {"none", "running", "success", "failed"})

\* The tasks of run r that are executing.
UserExecuting(r) == {t \in Tasks : ti[r][t] = "running"}

SalesExecuting(r) == {t \in SalesTasks : sales_ti[r][t] = "running"}

\* extract >> transform >> validate >> report >> notify
SalesChain == {"extract_sales_data", "transform_sales_data", "validate_data_quality", "generate_sales_report", "send_completion_email"}

\* C13 as stated: at most one task of a run is executing, in user_processing
\* and in sales_data_pipeline.
C13_Original ==
    /\ \A r \in Runs : Cardinality(UserExecuting(r)) <= 1
    /\ \A r \in SalesRuns : Cardinality(SalesExecuting(r)) <= 1

\* C13: at most one task of a run of user_processing is executing; of a run
\* of sales_data_pipeline at most one task of the chain extract, transform,
\* validate, report, e-mail is executing, next to which
\* backup_processed_data may be executing once extract has succeeded, and
\* wait_for_external_file at any time: at most three tasks in all.
C13_Sequential ==
    /\ \A r \in Runs : Cardinality(UserExecuting(r)) <= 1
    /\ \A r \in SalesRuns :
        /\ Cardinality(SalesExecuting(r) \cap SalesChain) <= 1
        /\ Cardinality(SalesExecuting(r)) <= 3
        /\ "backup_processed_data" \in SalesExecuting(r) => sales_ti[r]["extract_sales_data"] = "success"

C13_Witness == \E r \in SalesRuns : SalesExecuting(r) = {"transform_sales_data", "backup_processed_data", "wait_for_external_file"}

\* The runs of user_processing, and of sales_data_pipeline, that are active.
ActiveRuns == {r \in Runs : dag_run[r] = "running"}

ActiveSalesRuns == {r \in SalesRuns : sales_run[r] = "running"}

\* C14 as stated: at most one run of user_processing is active at any time,
\* and at most one run of sales_data_pipeline.
C14_Original == Cardinality(ActiveRuns) <= 1 /\ Cardinality(ActiveSalesRuns) <= 1

\* Two runs of user_processing are active, and both are past their sensor.
C14_TwoActive == \E r, q \in ActiveRuns : r # q /\ ti[r]["process_user"] = "running" /\ ti[q]["process_user"] = "running"

\* The tasks downstream of t, directly or not.
RECURSIVE SalesAncestors(_)
SalesAncestors(t) == SalesUpstream(t) \cup UNION {SalesAncestors(u) : u \in SalesUpstream(t)}

SalesDownstream(t) == {u \in SalesTasks : t \in SalesAncestors(u)}

\* Seconds a task has waited since its last attempt failed.
RetryWait(r, t) == IF sales_ti[r][t] = "scheduled" THEN retry_delay ELSE 0

AttemptStarts(r, t) == sales_ti[r][t] # "running" /\ sales_ti'[r][t] = "running"

BackupEnds(r) == SalesRunning(r, "backup_processed_data") /\ sales_ti'[r]["backup_processed_data"] # "running"

\* C16 as stated: whenever an attempt of backup_processed_data runs its cp,
\* /tmp/transformed_sales_data.csv exists and transform_sales_data of the
\* same run has written it.
C16_Original == [][\A r \in SalesRuns : BackupEnds(r) => transformed_sales_data_csv # None /\ transform_wrote[r]]_vars

\* The backup of a run has copied a file while transform_sales_data of that
\* run had not been attempted: the file of an earlier run.
C16_StaleBackup == \E r \in SalesRuns : sales_ti[r]["backup_processed_data"] = "success" /\ try_number[r]["transform_sales_data"] = 0 /\ backup_csv # None

\* store_user of run r executes in this step.
StoreUserRuns(r) == Running(r, "store_user") /\ ti'[r]["store_user"] # "running"

\* C17 as stated: when store_user of a run reads /tmp/user_info.csv, the
\* file is the one process_user of the same run wrote, and the rows it loads
\* are the record of that process_user.
C17_Original ==
    /\ [][\A r \in Runs : StoreUserRuns(r) => written_by = r /\ user_info_csv = DictWriter(processed[r])]_vars
    /\ [](\A r \in Runs : ti[r]["store_user"] = "success" => loaded[r] = DictWriter(processed[r]).rows)

\* A run has succeeded having loaded a row that its process_user did not
\* write.
C17_ForeignRow == \E r \in Runs : dag_run[r] = "success" /\ loaded[r] # DictWriter(processed[r]).rows

\* The tasks that produce or copy the data of a run.
DataTasks == {"extract_sales_data", "transform_sales_data", "validate_data_quality", "generate_sales_report", "backup_processed_data"}

\* C18 as stated: the completion e-mail of a run is sent only when extract,
\* transform, validate, report and backup_processed_data of the run have all
\* succeeded, and in no run in which one of them failed.
C18_Original ==
    /\ [][\A r \in SalesRuns : emails'[r] > emails[r] => \A t \in DataTasks : sales_ti[r][t] = "success"]_vars
    /\ [](\A r \in SalesRuns : emails[r] > 0 => \A t \in DataTasks : sales_ti[r][t] # "failed")

\* The completion e-mail of a run was sent and its backup has failed.
C18_EmailDespiteBackup == \E r \in SalesRuns : emails[r] = 1 /\ sales_ti[r]["backup_processed_data"] = "failed" /\ sales_run[r] = "failed"

\* What does hold: the e-mail is sent only when extract, transform, validate
\* and report of the run have succeeded.
C18_AfterReport == \A r \in SalesRuns : emails[r] > 0 => \A t \in DataTasks \ {"backup_processed_data"} : sales_ti[r][t] = "success"

\* C9: create_table never fails; it leaves the table users existing with the
\* columns and primary key of the statement, keeps every row, and changes
\* nothing at all when the table exists already.
C9_Idempotent ==
    [][\A r \in Runs :
        ti[r]["create_table"] = "running" /\ ti'[r]["create_table"] # "running" =>
            /\ ti'[r]["create_table"] = "success"
            /\ users'.exists /\ users'.columns = UsersColumns /\ users'.primary_key = "id"
            /\ users'.rows = users.rows
            /\ users.exists => users' = users]_vars

C9_Witness == \E r \in Runs : ti[r]["create_table"] = "success" /\ create_seen[r] > 0 /\ Len(users.rows) > 0

\* C10: a store_user whose file holds an id that is in users already fails
\* with a unique violation and leaves the table as it was; a run whose
\* store_user failed is not a success; no two rows of users have the same id.
C10_PrimaryKey ==
    /\ [](\A i, j \in DOMAIN users.rows : i # j => users.rows[i][1] # users.rows[j][1])
    /\ [](\A r \in Runs : ti[r]["store_user"] = "failed" => dag_run[r] \in {"running", "failed"})
    /\ [][\A r \in Runs :
            ti[r]["store_user"] = "running" /\ ti'[r]["store_user"] # "running" /\ user_info_csv # None /\ Ids(user_info_csv.rows) \cap Ids(users.rows) # {} =>
                ti'[r]["store_user"] = "failed" /\ error'[r]["store_user"] = "UniqueViolation" /\ users' = users]_vars

C10_Witness == \E r \in Runs : error[r]["store_user"] = "UniqueViolation" /\ dag_run[r] = "failed" /\ Len(users.rows) > 0

====
